---- MODULE Spec2Model ----
(***************************************************************************)
(* A model of the cortical-magnification fitting notebook                  *)
(* (src/notebooks/general-cmag.ipynb): the empirical cumulative-area curve *)
(* of fit_cmag_cumecc, the batch driver fitall_cmag_cumecc, the filter     *)
(* predicates, the cached loader subdata and the model forms.              *)
(*                                                                         *)
(* Each part of the notebook has its own specification over its own        *)
(* variables; the variables of the other parts stay at their initial       *)
(* values.  Arrays are sequences.  Real numbers are modelled exactly: the  *)
(* inputs are drawn from small integer sets on which the arithmetic of the *)
(* code is exact.                                                          *)
(***************************************************************************)
EXTENDS Integers, Sequences, FiniteSets, TLC

VARIABLES
    tieOrder,   \* np.argsort: the order this build leaves tied values in
    fitIn,      \* fit_cmag_cumecc: (prf_x, prf_y, surface_area) per vertex, as passed
    fitOut,     \* fit_cmag_cumecc: the curve (eccen, cumsa) of the latest call, or None
    fitPrev,    \* the input and the curve of the call before the vertices were passed again
    subdat,     \* filters: the vertex mapping d (eccentricity, polar_angle per vertex)
    fcall,      \* filters: the filter call (function and arguments)
    mask,       \* filters: the boolean mask the latest call returned
    data,       \* fitall_cmag_cumecc: per subject, the tuple of per-hemisphere arrays
    faArgs,     \* fitall_cmag_cumecc: the arguments weights, filter and labels of the call
    weights,    \* fitall_cmag_cumecc: its local (and parameter) weights
    faPos,      \* fitall_cmag_cumecc: the (subject, hemisphere, label) cell the loops are at
    result,     \* fitall_cmag_cumecc: result, per subject, hemisphere and label
    faStatus,   \* fitall_cmag_cumecc: "running", "returned" or the exception raised
    cachefile,  \* subdata: the cache file {h}.{sid}.npy: absent, being written, or its rows
    vfile,      \* subdata: whether the ventral label overlay file exists
    dfile,      \* subdata: whether the dorsal label overlay file exists
    dataset,    \* subdata: per vertex, the dataset's properties and the overlays' labels
    run,        \* subdata: per run, the position and the locals of its call
    nCalls,     \* subdata: calls made so far
    nWrites,    \* subdata: np.save calls begun so far
    anyOverwrite, \* subdata: whether a call so far passed overwrite=True
    formCall,   \* model forms: the latest evaluation (the form and its arguments)
    formVal,    \* model forms: the value it returned
    fitArgs,    \* fit_cmag_cumecc: the arguments of a call that reaches minimize
    known,      \* the parameters the areas of fitArgs were generated from
    fitRes      \* fit_cmag_cumecc: the loss it built and the result r it returned

fitVars  == <<tieOrder, fitIn, fitOut, fitPrev>>
filtVars == <<subdat, fcall, mask>>
allVars  == <<data, faArgs, weights, faPos, result, faStatus>>
cacheVars == <<cachefile, vfile, dfile, dataset, run, nCalls, nWrites, anyOverwrite>>
formVars == <<formCall, formVal>>
minVars  == <<fitArgs, known, fitRes>>
vars     == <<fitVars, filtVars, allVars, cacheVars, formVars, minVars>>

None == [k |-> "None"]

(***************************************************************************)
(* Bounds of the model.                                                    *)
(***************************************************************************)
MaxVerts == 2       \* vertices passed to one fit_cmag_cumecc call
MaxCoord == 1       \* |prf_x|, prf_y of a vertex
MaxArea  == 2       \* surface area of a vertex
MaxFiltVerts == 1   \* vertices of a mapping given to a filter
EccSpread == 1      \* eccentricities and ring bounds lie within 7 +- EccSpread
MaxAngle == 1       \* polar angles and wedge bounds lie within +- MaxAngle
NumDataLabels == 2  \* visual-area labels that occur in the batch data
CellSpread == 1     \* a cell holds 4 .. 4 + CellSpread vertices inside 7 degrees
MaxOutside == 1     \* vertices of each cell at or beyond 7 degrees
MaxCalls == 3       \* subdata calls in one behaviour
MaxDataVerts == 2   \* vertices of a hemisphere given to subdata
MaxLabel == 1       \* a label is -1, 0 (unlabelled) or MaxLabel
MaxEccIn == 8       \* eccentricities a model form is evaluated at
MaxParam == 1       \* |p| for each entry p of the optimiser's vector
MaxShape == 2       \* shape parameters of beta_form lie in 1 .. MaxShape
MaxMinVerts == 2    \* vertices of a call that reaches minimize
MaxWeight == 1      \* weights lie in 0 .. MaxWeight
MaxTotal == 2       \* total area A0, b and maximum eccentricity R of HH91_c1

(***************************************************************************)
(* Array helpers (numpy).                                                  *)
(***************************************************************************)
RECURSIVE SumSeq(_)
\* np.sum of an array
SumSeq(s) == IF s = <<>> THEN 0 ELSE s[1] + SumSeq(Tail(s))

\* a[ii] for an index array ii
Take(a, ii) == [i \in 1..Len(ii) |-> a[ii[i]]]

\* a[m] for a boolean mask m of the same length
RECURSIVE MaskIx(_, _)
MaskIx(m, i) ==
    IF i > Len(m) THEN <<>>
    ELSE (IF m[i] THEN <<i>> ELSE <<>>) \o MaskIx(m, i + 1)
Masked(a, m) == Take(a, MaskIx(m, 1))

Perms(n) == {p \in [1..n -> 1..n] : \A i, j \in 1..n : i # j => p[i] # p[j]}

\* the integer square root; exact on perfect squares
ISqrt(n) == CHOOSE r \in 0..n : r * r <= n /\ (r + 1) * (r + 1) > n
IsSquare(n) == ISqrt(n) * ISqrt(n) = n
Abs(n) == IF n < 0 THEN -n ELSE n

(***************************************************************************)
(* fit_cmag_cumecc: the empirical curve (lines 171-178).                   *)
(***************************************************************************)
\* np.hypot(x, y); the inputs are drawn where it is exact (see PrfPoints)
Hypot(x, y) == ISqrt(x * x + y * y)

\* a mutant of CumSum: the areas themselves, not their running sum
CumSumNoAcc(s) == s
\* np.cumsum
CumSum(s) == [i \in 1..Len(s) |-> SumSeq(SubSeq(s, 1, i))]

\* np.argsort's default kind is not stable: the order of tied values is the
\* build's (its sort kernel's), the same on every call of that build.
TieOrders == {"as_passed", "reversed"}

\* np.argsort(e): the index array that sorts e ascending
ArgSort(e, tie) ==
    LET Before(j, i) ==
            \/ e[j] < e[i]
            \/ e[j] = e[i] /\ (IF tie = "as_passed" THEN j < i ELSE j > i)
        Rank(i) == 1 + Cardinality({j \in 1..Len(e) : Before(j, i)})
    IN  [r \in 1..Len(e) |-> CHOOSE i \in 1..Len(e) : Rank(i) = r]

\* lines 174-178: the curve (eccen, cumsa) that stepfn compares the model to
Curve(v, tie) ==
    LET eccen == [i \in 1..Len(v) |-> Hypot(v[i].x, v[i].y)]
        sarea == [i \in 1..Len(v) |-> v[i].a]
        ii    == ArgSort(eccen, tie)
    IN  [eccen |-> Take(eccen, ii), cumsa |-> CumSum(Take(sarea, ii))]

\* pRF centres on which np.hypot is exact in the integers
PrfPoints ==
    {p \in ((-MaxCoord)..MaxCoord) \X (0..MaxCoord) :
        IsSquare(p[1] * p[1] + p[2] * p[2])}
Vertex == {[x |-> p[1], y |-> p[2], a |-> a] : p \in PrfPoints, a \in 0..MaxArea}
VertexSeqs == UNION {[1..n -> Vertex] : n \in 0..MaxVerts}

FitInit ==
    /\ tieOrder \in TieOrders
    /\ fitIn \in VertexSeqs
    /\ fitOut = None
    /\ fitPrev = None

FitIdle ==
    /\ tieOrder = "as_passed"
    /\ fitIn = <<>>
    /\ fitOut = None
    /\ fitPrev = None

\* fit_cmag_cumecc(prf_x, prf_y, surface_areas, ...) on the arrays as passed
FitCall ==
    /\ fitOut = None
    /\ fitOut' = Curve(fitIn, tieOrder)
    /\ UNCHANGED <<tieOrder, fitIn, fitPrev, filtVars, allVars, cacheVars, formVars, minVars>>

\* the same vertices passed again in the order p
FitCallPermuted ==
    /\ fitOut # None
    /\ fitPrev = None
    /\ \E p \in Perms(Len(fitIn)) :
         /\ fitIn' = Take(fitIn, p)
         /\ fitOut' = Curve(fitIn', tieOrder)
    /\ fitPrev' = [in |-> fitIn, out |-> fitOut]
    /\ UNCHANGED <<tieOrder, filtVars, allVars, cacheVars, formVars, minVars>>

FitNext == FitCall \/ FitCallPermuted

(***************************************************************************)
(* The filters (lines 235-247).                                            *)
(***************************************************************************)
DefaultMaxEcc == 7

\* elementwise & of two masks
MaskAnd(m, n) == [i \in 1..Len(m) |-> m[i] /\ n[i]]

\* a mutant of filt_base: the cutoff itself is let through
filt_base_inclusive(d, maxecc) == [i \in 1..Len(d) |-> d[i].eccentricity <= maxecc]
\* lines 235-236
filt_base(d, maxecc) == [i \in 1..Len(d) |-> d[i].eccentricity < maxecc]

filt_wedge(d, minangle, maxangle) ==
    LET ang == [i \in 1..Len(d) |-> d[i].polar_angle]
    IN  MaskAnd(MaskAnd(filt_base(d, DefaultMaxEcc),
                        [i \in 1..Len(d) |-> ang[i] >= minangle]),
                [i \in 1..Len(d) |-> ang[i] <= maxangle])

filt_ring(d, minecc, maxecc) ==
    LET ecc == [i \in 1..Len(d) |-> d[i].eccentricity]
    IN  MaskAnd(MaskAnd(filt_base(d, DefaultMaxEcc),
                        [i \in 1..Len(d) |-> ecc[i] >= minecc]),
                [i \in 1..Len(d) |-> ecc[i] <= maxecc])

\* a mutant of filt_sect: the ring is left out
filt_sect_noring(d, minang, maxang, minecc, maxecc) ==
    MaskAnd(filt_base(d, DefaultMaxEcc), filt_wedge(d, minang, maxang))
filt_sect(d, minang, maxang, minecc, maxecc) ==
    MaskAnd(MaskAnd(filt_base(d, DefaultMaxEcc), filt_wedge(d, minang, maxang)),
            filt_ring(d, minecc, maxecc))

EccVals == (DefaultMaxEcc - EccSpread)..(DefaultMaxEcc + EccSpread)
AngVals == (-MaxAngle)..MaxAngle
FiltVertex == [eccentricity : EccVals, polar_angle : AngVals]
FiltData == UNION {[1..n -> FiltVertex] : n \in 0..MaxFiltVerts}

\* a mapping of vertices; each behaviour applies one filter to it
FiltInit ==
    /\ subdat \in FiltData
    /\ fcall = None
    /\ mask = <<>>

FiltIdle ==
    /\ subdat = <<>>
    /\ fcall = None
    /\ mask = <<>>

CallBase ==
    /\ fcall = None
    /\ \E c \in EccVals :
         /\ fcall' = [k |-> "filt_base", maxecc |-> c]
         /\ mask' = filt_base(subdat, c)
    /\ UNCHANGED <<subdat, fitVars, allVars, cacheVars, formVars, minVars>>

CallWedge ==
    /\ fcall = None
    /\ \E a0, a1 \in AngVals :
         /\ fcall' = [k |-> "filt_wedge", a0 |-> a0, a1 |-> a1]
         /\ mask' = filt_wedge(subdat, a0, a1)
    /\ UNCHANGED <<subdat, fitVars, allVars, cacheVars, formVars, minVars>>

CallRing ==
    /\ fcall = None
    /\ \E e0, e1 \in EccVals :
         /\ fcall' = [k |-> "filt_ring", e0 |-> e0, e1 |-> e1]
         /\ mask' = filt_ring(subdat, e0, e1)
    /\ UNCHANGED <<subdat, fitVars, allVars, cacheVars, formVars, minVars>>

CallSect ==
    /\ fcall = None
    /\ \E a0, a1 \in AngVals, e0, e1 \in EccVals :
         /\ fcall' = [k |-> "filt_sect", a0 |-> a0, a1 |-> a1, e0 |-> e0, e1 |-> e1]
         /\ mask' = filt_sect(subdat, a0, a1, e0, e1)
    /\ UNCHANGED <<subdat, fitVars, allVars, cacheVars, formVars, minVars>>

FiltNext == CallBase \/ CallWedge \/ CallRing \/ CallSect


(***************************************************************************)
(* fitall_cmag_cumecc (lines 199-233).                                     *)
(***************************************************************************)
MinVerts == 5
NumDefaultLabels == 10
NumHemis == 2

\* what fit_cmag_cumecc hands to the optimiser (lines 171-193): the curve and,
\* for the weighted mse, the weights array as it was passed
fit_cmag_cumecc(v, w, tie) ==
    [k |-> "fit", curve |-> Curve(v, tie), weights |-> w]

\* Python's truth value of weights (line 221): of None, of a key (a non-empty
\* string) and of a numpy array, which raises for more than one element
Truth(w) ==
    CASE w.k = "None"  -> "False"
      [] w.k = "key"   -> "True"
      [] w.k = "array" -> IF Len(w.v) > 1 THEN "ValueError"
                          ELSE IF Len(w.v) = 1 /\ w.v[1] # 0 THEN "True"
                          ELSE "False"

\* filter(hdata): the default lambda (line 208) gives True for every vertex
ApplyFilter(f, hdata) ==
    IF f = "None" THEN [i \in 1..Len(hdata) |-> TRUE]
    ELSE filt_base(hdata, DefaultMaxEcc)

\* labels as the loops use it (lines 209-210)
LabelsOf(args) ==
    IF args.labels = None THEN [i \in 1..NumDefaultLabels |-> i] ELSE args.labels.v

\* line 217: ii = filter(hdata) & (hdata['label'] == lbl)
CellMask(args, hdata, lbl) ==
    MaskAnd(ApplyFilter(args.filter, hdata),
            [i \in 1..Len(hdata) |-> hdata[i].label = lbl])

\* np.sum(ii)
CountTrue(m) == Len(MaskIx(m, 1))

\* line 218
TooFew(n) == n < MinVerts

\* the arrays fit_cmag_cumecc gets for a cell (lines 223-225)
CellVerts(hdata, ii) ==
    LET sel == Masked(hdata, ii)
    IN  [i \in 1..Len(sel) |-> [x |-> sel[i].x, y |-> sel[i].y, a |-> sel[i].surface_area]]

\* hdata[key][ii]
CellColumn(hdata, key, ii) ==
    LET sel == Masked(hdata, ii) IN [i \in 1..Len(sel) |-> sel[i].cod]

\* The batch data: each hemisphere holds, for each label, n vertices inside 7
\* degrees (in descending eccentricity) and nout vertices at or beyond it.
CellGroup(lbl, n, nout) ==
    [i \in 1..(n + nout) |->
        LET e == IF i <= nout THEN DefaultMaxEcc + nout - i ELSE n + nout + 1 - i
        IN  [label |-> lbl, x |-> e, y |-> 0, eccentricity |-> e,
             surface_area |-> 1 + (i % 2), cod |-> i]]
RECURSIVE HemiData(_, _, _)
HemiData(counts, nout, lbl) ==
    IF lbl > NumDataLabels THEN <<>>
    ELSE CellGroup(lbl, counts[lbl], nout) \o HemiData(counts, nout, lbl + 1)

CellCounts == (MinVerts - 1)..(MinVerts - 1 + CellSpread)

AllData ==
    {<< [h \in 1..NumHemis |-> HemiData(c[h], nout, 1)] >> :
        c \in [1..NumHemis -> [1..NumDataLabels -> CellCounts]],
        nout \in 0..MaxOutside}

AllArgs ==
    [weights : {None, [k |-> "key", name |-> "cod"]},
     filter  : {"None", "filt_base"},
     labels  : {None, [k |-> "list", v |-> [i \in 1..NumDataLabels |-> NumDataLabels + 1 - i]]}]

\* the state on entry, after line 211
AllInit ==
    /\ data \in AllData
    /\ faArgs \in AllArgs
    /\ weights = faArgs.weights
    /\ faPos = <<1, 1, 1>>
    /\ result = << <<>> >>
    /\ faStatus = "running"

AllIdle ==
    /\ data = <<>>
    /\ faArgs = None
    /\ weights = None
    /\ faPos = <<1, 1, 1>>
    /\ result = <<>>
    /\ faStatus = "idle"

\* the loops' position after the cell at pos (lines 212-216)
NextPos(pos, nlabels) ==
    IF pos[3] < nlabels THEN <<pos[1], pos[2], pos[3] + 1>>
    ELSE IF pos[2] < NumHemis THEN <<pos[1], pos[2] + 1, 1>>
    ELSE <<pos[1] + 1, 1, 1>>

\* hres.append(r), and at the end of a hemisphere sres.append(tuple(hres))
Appended(res, pos, r) ==
    LET s  == pos[1]
        h  == pos[2]
        sr == IF Len(res) < s THEN res \o << <<>> >> ELSE res
        hr == IF Len(sr[s]) < h THEN [sr EXCEPT ![s] = @ \o << <<>> >>] ELSE sr
    IN  [hr EXCEPT ![s][h] = @ \o <<r>>]

\* one pass of the innermost loop body (lines 217-230) that skips the cell
AllSkipCell ==
    /\ faStatus = "running"
    /\ faPos[1] <= Len(data)
    /\ LET hdata == data[faPos[1]][faPos[2]]
           lbl   == LabelsOf(faArgs)[faPos[3]]
           ii    == CellMask(faArgs, hdata, lbl)
       IN  /\ TooFew(CountTrue(ii))
           /\ result' = Appended(result, faPos, None)
           /\ faPos' = NextPos(faPos, Len(LabelsOf(faArgs)))
    /\ UNCHANGED <<data, faArgs, weights, faStatus, fitVars, filtVars, cacheVars, formVars, minVars>>

\* one pass of the innermost loop body that fits the cell
AllFitCell ==
    /\ faStatus = "running"
    /\ faPos[1] <= Len(data)
    /\ LET hdata == data[faPos[1]][faPos[2]]
           lbl   == LabelsOf(faArgs)[faPos[3]]
           ii    == CellMask(faArgs, hdata, lbl)
           w     == IF Truth(weights) = "True"
                    THEN [k |-> "array", v |-> CellColumn(hdata, weights.name, ii)]
                    ELSE None
       IN  /\ ~TooFew(CountTrue(ii))
           /\ Truth(weights) # "ValueError"
           /\ weights' = w
           /\ result' = Appended(result, faPos,
                                 fit_cmag_cumecc(CellVerts(hdata, ii), w, tieOrder))
           /\ faPos' = NextPos(faPos, Len(LabelsOf(faArgs)))
    /\ UNCHANGED <<data, faArgs, faStatus, fitVars, filtVars, cacheVars, formVars, minVars>>

\* line 221 raises: `not weights` of the array a fitted cell left in weights
AllRaise ==
    /\ faStatus = "running"
    /\ faPos[1] <= Len(data)
    /\ LET hdata == data[faPos[1]][faPos[2]]
           lbl   == LabelsOf(faArgs)[faPos[3]]
           ii    == CellMask(faArgs, hdata, lbl)
       IN  /\ ~TooFew(CountTrue(ii))
           /\ Truth(weights) = "ValueError"
    /\ faStatus' = "ValueError"
    /\ UNCHANGED <<data, faArgs, weights, faPos, result, fitVars, filtVars, cacheVars, formVars, minVars>>

\* line 233
AllReturn ==
    /\ faStatus = "running"
    /\ faPos[1] > Len(data)
    /\ faStatus' = "returned"
    /\ UNCHANGED <<data, faArgs, weights, faPos, result, fitVars, filtVars, cacheVars, formVars, minVars>>

AllNext == AllSkipCell \/ AllFitCell \/ AllRaise \/ AllReturn

(***************************************************************************)
(* subdata (lines 91-131).                                                 *)
(***************************************************************************)
Sid == "111312"
Hemi == "lh"
Runs == {"run1", "run2"}

RECURSIVE Pow2(_)
Pow2(n) == IF n = 0 THEN 1 ELSE 2 * Pow2(n - 1)
RECURSIVE Log2(_)
\* the exponent of the leading bit of n >= 1
Log2(n) == IF n < 2 THEN 0 ELSE 1 + Log2(n \div 2)

F32Mantissa == 24
\* dtype=np.float32 (line 121): an integer rounded to 24 significant bits,
\* ties to even
F32(n) ==
    LET m   == Abs(n)
        ulp == IF m < Pow2(F32Mantissa) THEN 1 ELSE Pow2(Log2(m) - (F32Mantissa - 1))
        q   == m \div ulp
        r   == m % ulp
        up  == 2 * r > ulp \/ (2 * r = ulp /\ q % 2 = 1)
        v   == (IF up THEN q + 1 ELSE q) * ulp
    IN  IF n < 0 THEN -v ELSE v

\* lines 109-112 for one vertex: lbl[lbl == 0] = vlbl[...]; lbl[lbl == 0] = dlbl[...]
Merged(va, vl, dl) ==
    LET l1 == IF va = 0 THEN vl ELSE va
    IN  IF l1 = 0 THEN dl ELSE l1

\* a mutant of Kept: every nonzero label is kept
KeptNonzero(lbl) == lbl # 0
\* line 113: nz = (lbl > 0)
Kept(lbl) == lbl > 0

\* lines 109-122: the (8, n) array dat
Rows(ds) ==
    LET lbl == [i \in 1..Len(ds) |-> Merged(ds[i].visual_area, ds[i].ventral, ds[i].dorsal)]
        nz  == [i \in 1..Len(ds) |-> Kept(lbl[i])]
        Col(f(_)) == Masked([i \in 1..Len(ds) |-> F32(f(i))], nz)
        L(i) == lbl[i]
        X(i) == ds[i].prf_x
        Y(i) == ds[i].prf_y
        R(i) == ds[i].prf_radius
        T(i) == ds[i].prf_polar_angle
        E(i) == ds[i].prf_eccentricity
        A(i) == ds[i].midgray_surface_area
        W(i) == ds[i].prf_variance_explained
    IN  <<Col(L), Col(X), Col(Y), Col(R), Col(T), Col(E), Col(A), Col(W)>>

\* lines 125-131: the dict returned
Dict(rows) ==
    [label |-> rows[1], x |-> rows[2], y |-> rows[3], sigma |-> rows[4],
     polar_angle |-> rows[5], eccentricity |-> rows[6],
     surface_area |-> rows[7], cod |-> rows[8]]

\* a mutant of NeedsBuild: the cache is never consulted
NeedsBuildAlways(overwrite, isfile) == TRUE
\* line 96
NeedsBuild(overwrite, isfile) == overwrite \/ ~isfile

\* a mutant of OverlayError: the dorsal file is not checked
OverlayErrorVentralOnly(v, d) ==
    IF ~v THEN [k |-> "RuntimeError", file |-> "ventral", sid |-> Sid, h |-> Hemi]
    ELSE None
\* lines 103-106: the RuntimeError raised, or None
OverlayError(v, d) ==
    IF ~v THEN [k |-> "RuntimeError", file |-> "ventral", sid |-> Sid, h |-> Hemi]
    ELSE IF ~d THEN [k |-> "RuntimeError", file |-> "dorsal", sid |-> Sid, h |-> Hemi]
    ELSE None

Absent  == [k |-> "absent"]
Partial == [k |-> "partial"]
File(rows) == [k |-> "file", rows |-> rows]
IsFile(f) == f.k # "absent"

\* The properties of vertex i other than its labels; the variance explained of
\* the first vertex is not a float32 value.
VertexProps(i, va, vl, dl, rev) ==
    [visual_area |-> va, ventral |-> vl, dorsal |-> dl,
     prf_x |-> 10 * i + 1 + rev, prf_y |-> 10 * i + 2, prf_radius |-> 10 * i + 3,
     prf_polar_angle |-> -(10 * i + 4), prf_eccentricity |-> 10 * i + 5,
     midgray_surface_area |-> 10 * i + 6,
     prf_variance_explained |-> Pow2(F32Mantissa) + i]

LabelVals == {-1, 0, MaxLabel}
Datasets(rev) ==
    UNION {{[i \in 1..n |-> VertexProps(i, l[i][1], l[i][2], l[i][3], rev)] :
              l \in [1..n -> LabelVals \X LabelVals \X LabelVals]} :
           n \in 1..MaxDataVerts}

\* the two releases of the dataset the cached runs read
Release(rev) == <<VertexProps(1, 1, 0, 0, rev), VertexProps(2, 0, 0, 1, rev)>>

IdleRun ==
    [pc |-> "idle", overwrite |-> FALSE, isfile |-> FALSE, dat |-> <<>>,
     ret |-> None, err |-> None, reads |-> 0, saves |-> 0,
     file0 |-> Absent, v0 |-> FALSE, d0 |-> FALSE, writes0 |-> 0]

InProgress(p) == run[p].pc \in {"called", "build", "save", "saving", "load"}

CacheIdle ==
    /\ cachefile = Absent
    /\ vfile = TRUE
    /\ dfile = TRUE
    /\ dataset = <<>>
    /\ run = [p \in Runs |-> IdleRun]
    /\ nCalls = 0
    /\ nWrites = 0
    /\ anyOverwrite = FALSE

\* sequential and concurrent runs: any state of the files, one of two releases
CacheInit ==
    /\ dataset = Release(0)
    /\ cachefile \in {Absent, File(Rows(Release(0)))}
    /\ vfile \in BOOLEAN
    /\ dfile \in BOOLEAN
    /\ run = [p \in Runs |-> IdleRun]
    /\ nCalls = 0
    /\ nWrites = 0
    /\ anyOverwrite = FALSE

\* one run on any dataset, with the overlays there and no cache file
RowsInit ==
    /\ dataset \in Datasets(0)
    /\ cachefile = Absent
    /\ vfile = TRUE
    /\ dfile = TRUE
    /\ run = [p \in Runs |-> IdleRun]
    /\ nCalls = 0
    /\ nWrites = 0
    /\ anyOverwrite = FALSE

\* subdata(sid, h, overwrite=ov) is called by run p
Call(p, ov, concurrent, maxCalls) ==
    /\ nCalls < maxCalls
    /\ ~InProgress(p)
    /\ concurrent \/ \A q \in Runs : ~InProgress(q)
    /\ nCalls' = nCalls + 1
    /\ anyOverwrite' = (anyOverwrite \/ ov)
    /\ run' = [run EXCEPT ![p] =
                 [IdleRun EXCEPT !.pc = "called", !.overwrite = ov,
                                 !.file0 = cachefile, !.v0 = vfile, !.d0 = dfile,
                                 !.writes0 = nWrites]]
    /\ UNCHANGED <<cachefile, vfile, dfile, dataset, nWrites, fitVars, filtVars, allVars, formVars, minVars>>

\* line 96: overwrite or not cachefile.is_file()
CheckCache(p) ==
    /\ run[p].pc = "called"
    /\ run' = [run EXCEPT ![p].isfile = IsFile(cachefile),
                          ![p].pc = IF NeedsBuild(run[p].overwrite, IsFile(cachefile))
                                    THEN "build" ELSE "load"]
    /\ UNCHANGED <<cachefile, vfile, dfile, dataset, nCalls, nWrites, anyOverwrite,
                   fitVars, filtVars, allVars, formVars, minVars>>

\* lines 97-122: read the dataset, check the overlays, build dat
Build(p) ==
    /\ run[p].pc = "build"
    /\ LET e == OverlayError(vfile, dfile)
       IN  run' = [run EXCEPT ![p].reads = @ + 1,
                              ![p].err = e,
                              ![p].pc  = IF e = None THEN "save" ELSE "raised",
                              ![p].dat = IF e = None THEN Rows(dataset) ELSE @]
    /\ UNCHANGED <<cachefile, vfile, dfile, dataset, nCalls, nWrites, anyOverwrite,
                   fitVars, filtVars, allVars, formVars, minVars>>

\* a mutant of SaveOpens: the file is left alone when it is there by now
SaveOpensUnlessThere(f) == ~IsFile(f)
\* line 123: np.save opens the file for writing whatever its state
SaveOpens(f) == TRUE

\* line 123, np.save opening the file: it exists from here on, incomplete
SaveBegin(p) ==
    /\ run[p].pc = "save"
    /\ IF SaveOpens(cachefile)
       THEN /\ cachefile' = Partial
            /\ nWrites' = nWrites + 1
            /\ run' = [run EXCEPT ![p].pc = "saving", ![p].saves = @ + 1]
       ELSE /\ run' = [run EXCEPT ![p].pc = "load"]
            /\ UNCHANGED <<cachefile, nWrites>>
    /\ UNCHANGED <<vfile, dfile, dataset, nCalls, anyOverwrite, fitVars, filtVars, allVars, formVars, minVars>>

\* line 123, np.save done: the file holds dat
SaveEnd(p) ==
    /\ run[p].pc = "saving"
    /\ cachefile' = File(run[p].dat)
    /\ run' = [run EXCEPT ![p].pc = "load"]
    /\ UNCHANGED <<vfile, dfile, dataset, nCalls, nWrites, anyOverwrite,
                   fitVars, filtVars, allVars, formVars, minVars>>

\* lines 124-131: np.load and the dict; np.load raises on a file that is not
\* whole
Load(p) ==
    /\ run[p].pc = "load"
    /\ run' = [run EXCEPT
                 ![p].pc  = IF cachefile.k = "file" THEN "returned" ELSE "raised",
                 ![p].ret = IF cachefile.k = "file" THEN Dict(cachefile.rows) ELSE @,
                 ![p].err = IF cachefile.k = "file" THEN @
                            ELSE [k |-> "LoadError", file |-> cachefile.k]]
    /\ UNCHANGED <<cachefile, vfile, dfile, dataset, nCalls, nWrites, anyOverwrite,
                   fitVars, filtVars, allVars, formVars, minVars>>

\* the environment: an overlay file is removed
RemoveOverlay ==
    /\ \/ vfile /\ vfile' = FALSE /\ UNCHANGED dfile
       \/ dfile /\ dfile' = FALSE /\ UNCHANGED vfile
    /\ UNCHANGED <<cachefile, dataset, run, nCalls, nWrites, anyOverwrite,
                   fitVars, filtVars, allVars, formVars, minVars>>

\* the environment: the dataset is replaced by its other release
NewRelease ==
    /\ dataset = Release(0)
    /\ dataset' = Release(1)
    /\ UNCHANGED <<cachefile, vfile, dfile, run, nCalls, nWrites, anyOverwrite,
                   fitVars, filtVars, allVars, formVars, minVars>>

Steps(p) == CheckCache(p) \/ Build(p) \/ SaveBegin(p) \/ SaveEnd(p) \/ Load(p)

\* calls one after the other
CacheNext ==
    \/ \E p \in Runs, ov \in BOOLEAN : Call(p, ov, FALSE, MaxCalls)
    \/ \E p \in Runs : Steps(p)
    \/ RemoveOverlay
    \/ NewRelease

\* one call of each run, the two interleaved
RaceNext ==
    \/ \E p \in Runs : run[p].pc = "idle" /\ Call(p, FALSE, TRUE, MaxCalls)
    \/ \E p \in Runs : Steps(p)

\* one call
RowsNext ==
    \/ Call("run1", FALSE, FALSE, 1)
    \/ Steps("run1")

(***************************************************************************)
(* The model forms (lines 273-284, 304-310).                               *)
(*                                                                         *)
(* A value is NaN, +Inf, -Inf or a finite real written exactly as          *)
(*   (c[1] / c[2]) * pi^pi * PRODUCT of D^e over the terms [q, r, e] in at *)
(* where D = log(q) - r for rationals q and r, or the square root of such  *)
(* a product (rt).  numpy's division by zero gives Inf or NaN (with a      *)
(* warning), never an exception.                                           *)
(***************************************************************************)
RECURSIVE GCD(_, _)
GCD(a, b) == IF b = 0 THEN a ELSE GCD(b, a % b)
\* the rational n/d in lowest terms, d > 0
Norm(n, d) ==
    LET g  == GCD(Abs(n), Abs(d))
        sg == IF d < 0 THEN -1 ELSE 1
    IN  <<(sg * n) \div g, (sg * d) \div g>>
RECURSIVE Pow(_, _)
Pow(b, e) == IF e = 0 THEN 1 ELSE b * Pow(b, e - 1)
RECURSIVE Binomial(_, _)
Binomial(n, j) == IF j = 0 \/ j = n THEN 1 ELSE Binomial(n - 1, j - 1) + Binomial(n - 1, j)

NaN  == [k |-> "nan"]
Inf  == [k |-> "inf"]
NInf == [k |-> "ninf"]
Fin(c, pi, at, rt) ==
    IF c[1] = 0
    THEN [k |-> "fin", c |-> <<0, 1>>, pi |-> 0, at |-> {}, rt |-> FALSE]
    ELSE [k |-> "fin", c |-> c, pi |-> pi, at |-> at, rt |-> rt]
Num(n) == Fin(<<n, 1>>, 0, {}, FALSE)
Rat(n, d) == Fin(Norm(n, d), 0, {}, FALSE)
\* np.pi
Pi == Fin(<<1, 1>>, 1, {}, FALSE)
IsZero(u) == u.k = "fin" /\ u.c[1] = 0
Negative(u) == u.k = "ninf" \/ (u.k = "fin" /\ u.c[1] < 0)

\* the terms of a product of two products of D terms
TermsMul(A, B) ==
    LET keys == {<<t.q, t.r>> : t \in A \cup B}
        E(S, key) == IF \E t \in S : <<t.q, t.r>> = key
                     THEN (CHOOSE t \in S : <<t.q, t.r>> = key).e ELSE 0
    IN  {t \in {[q |-> key[1], r |-> key[2], e |-> E(A, key) + E(B, key)] : key \in keys} :
            t.e # 0}

\* u * v
Mul(u, v) ==
    IF u.k = "nan" \/ v.k = "nan" THEN NaN
    ELSE IF u.k # "fin" \/ v.k # "fin"
    THEN IF IsZero(u) \/ IsZero(v) THEN NaN
         ELSE IF Negative(u) = Negative(v) THEN Inf ELSE NInf
    ELSE IF u.rt \/ v.rt THEN [k |-> "other"]
    ELSE Fin(Norm(u.c[1] * v.c[1], u.c[2] * v.c[2]), u.pi + v.pi,
             TermsMul(u.at, v.at), FALSE)

\* 1 / u
Inv(u) ==
    IF u.k = "nan" THEN NaN
    ELSE IF u.k # "fin" THEN Num(0)
    ELSE IF IsZero(u) THEN Inf
    ELSE Fin(Norm(u.c[2], u.c[1]), -u.pi,
             {[q |-> t.q, r |-> t.r, e |-> -t.e] : t \in u.at}, u.rt)

\* u / v: x/0 is Inf for x > 0 and NaN for x = 0
Div(u, v) == Mul(u, Inv(v))

\* D = log(q) - r is certainly non-negative: log(q) >= 2 (q - 1) / (q + 1)
\* for q >= 1
TermNonNeg(t) ==
    /\ t.q[1] >= t.q[2]
    /\ 2 * (t.q[1] - t.q[2]) * t.r[2] >= t.r[1] * (t.q[1] + t.q[2])

\* u >= 0 (false of NaN)
NonNeg(u) ==
    \/ u.k = "inf"
    \/ /\ u.k = "fin"
       /\ u.c[1] >= 0
       /\ \A t \in u.at : t.e % 2 = 0 \/ TermNonNeg(t)

\* np.sqrt(u)
Sqrt(u) ==
    IF u.k = "inf" THEN Inf
    ELSE IF u.k = "fin" /\ NonNeg(u) /\ ~u.rt THEN Fin(u.c, u.pi, u.at, TRUE)
    ELSE NaN

\* u ** 2
Square(u) ==
    IF u.k = "fin" /\ u.rt THEN Fin(u.c, u.pi, u.at, FALSE) ELSE Mul(u, u)

\* np.log(v) - r for v = x / y and r = n / d, each a quotient of numbers >= 0
LogMinus(x, y, n, d) ==
    IF (x = 0 /\ y = 0) \/ (n = 0 /\ d = 0) THEN NaN
    ELSE IF x = 0 THEN NInf
    ELSE IF y = 0 THEN (IF d = 0 THEN NaN ELSE Inf)
    ELSE IF d = 0 THEN NInf
    ELSE IF x = y THEN Rat(-n, d)
    ELSE Fin(<<1, 1>>, 0, {[q |-> Norm(x, y), r |-> Norm(n, d), e |-> 1]}, FALSE)

\* line 284, HH91_argtx[1], and line 310, beta_argtx[1]: np.array(x)**2
ArgTxInverse(p) == [i \in 1..Len(p) |-> p[i] * p[i]]

\* lines 273-274
HH91(x, a, b) == Square(Div(a, Num(x + b)))

\* lines 276-278
HH91_integral(x, a, b) ==
    LET xb == x + b
    IN  Mul(Mul(Square(a), Pi), LogMinus(xb, b, x, xb))

\* the math notes (part_001 lines 87-91): the integral of HH91 over the disk
\* of radius r, 2 pi a^2 (log((b + r) / b) - r / (b + r))
M_HH(r, a, b) ==
    Mul(Mul(Mul(Num(2), Pi), Square(a)), LogMinus(b + r, b, r, b + r))

\* a mutant of HH91_c1: 2 pi, as the notes have it
HH91_c1_TwoPi(totalarea, b, maxecc) ==
    LET mb == maxecc + b
    IN  Sqrt(Div(Div(Div(Num(totalarea), Num(2)), Pi), LogMinus(mb, b, maxecc, mb)))
\* lines 280-282
HH91_c1(totalarea, b, maxecc) ==
    LET mb == maxecc + b
    IN  Sqrt(Div(Div(Num(totalarea), Pi), LogMinus(mb, b, maxecc, mb)))

RECURSIVE BetaSum(_, _, _, _)
\* SUM over i = j..n of C(n, i) t^i (d - t)^(n - i)
BetaSum(n, j, t, d) ==
    IF j > n THEN 0
    ELSE Binomial(n, j) * Pow(t, j) * Pow(d - t, n - j) + BetaSum(n, j + 1, t, d)

\* scipy.stats.beta.cdf(t / d, a, b) for whole a and b: NaN unless a > 0 and
\* b > 0, else the regularised incomplete beta function
BetaCdf(t, d, a, b) ==
    IF a <= 0 \/ b <= 0 THEN NaN
    ELSE IF t <= 0 THEN Num(0)
    ELSE IF t >= d THEN Num(1)
    ELSE Rat(BetaSum(a + b - 1, a, t, d), Pow(d, a + b - 1))

\* lines 304-305, maxecc at its default
beta_form(x, a, b) == BetaCdf(x, DefaultMaxEcc, a, b)

FormIdle ==
    /\ formCall = None
    /\ formVal = None

EccIn == 0..MaxEccIn
OptVectors == [1..2 -> (-MaxParam)..MaxParam]

\* HH91(x, *HH91_argtx[1](p))
EvalHH91 ==
    /\ \E x \in EccIn, p \in OptVectors :
         LET q == ArgTxInverse(p)
         IN  /\ formCall' = [k |-> "HH91", x |-> x, p |-> p]
             /\ formVal' = HH91(x, Num(q[1]), q[2])
    /\ UNCHANGED <<fitVars, filtVars, allVars, cacheVars, minVars>>

\* HH91_integral(x, *HH91_argtx[1](p))
EvalHH91Integral ==
    /\ \E x \in EccIn, p \in OptVectors :
         LET q == ArgTxInverse(p)
         IN  /\ formCall' = [k |-> "HH91_integral", x |-> x, p |-> p]
             /\ formVal' = HH91_integral(x, Num(q[1]), q[2])
    /\ UNCHANGED <<fitVars, filtVars, allVars, cacheVars, minVars>>

\* beta_form(x, *beta_argtx[1](p))
EvalBetaForm ==
    /\ \E x \in EccIn, p \in OptVectors :
         LET q == ArgTxInverse(p)
         IN  /\ formCall' = [k |-> "beta_form", x |-> x, p |-> p]
             /\ formVal' = beta_form(x, q[1], q[2])
    /\ UNCHANGED <<fitVars, filtVars, allVars, cacheVars, minVars>>

\* HH91_integral(R, HH91_c1(A0, b, R), b)
EvalTotalArea ==
    /\ \E A0, b, R \in 1..MaxTotal :
         /\ formCall' = [k |-> "total_area", A0 |-> A0, b |-> b, R |-> R]
         /\ formVal' = HH91_integral(R, HH91_c1(A0, b, R), b)
    /\ UNCHANGED <<fitVars, filtVars, allVars, cacheVars, minVars>>

FormNext == EvalHH91 \/ EvalHH91Integral \/ EvalBetaForm \/ EvalTotalArea

(***************************************************************************)
(* fit_cmag_cumecc as a whole (lines 165-197), called as the notebook calls *)
(* it (lines 368-372): formfn is beta_form.  Surface areas are whole        *)
(* multiples of 1 / unit, so that the curve and the form are compared       *)
(* exactly.  The loss is kept as its class: "zero", "pos" (positive) or     *)
(* "nan".                                                                   *)
(***************************************************************************)
\* Parameters and optimiser values are numbers s * sqrt(sq), s being 1 or -1
Surd(s, sq) == [s |-> IF sq = 0 THEN 1 ELSE s, sq |-> sq]
\* the whole number n, and the whole number a surd is (-1 if it is none)
Whole(n) == Surd(IF n < 0 THEN -1 ELSE 1, n * n)
WholeOf(u) == IF IsSquare(u.sq) THEN u.s * ISqrt(u.sq) ELSE -1
Wholes(p) == [i \in 1..Len(p) |-> Whole(p[i])]

\* argtx[0](params0), line 194: the identity (line 180) or np.sqrt (line 310),
\* of whole numbers >= 0
argtx0(argtx, params) ==
    IF argtx = "None" THEN params
    ELSE [i \in 1..Len(params) |-> Surd(1, WholeOf(params[i]))]

\* argtx[1](x), lines 193 and 196: the identity or np.array(x)**2
argtx1(argtx, x) ==
    IF argtx = "None" THEN x
    ELSE [i \in 1..Len(x) |-> Whole(x[i].sq)]

\* np.max of a sequence of non-negative numbers
MaxSeq(q) == IF Len(q) = 0 THEN 0 ELSE CHOOSE m \in {q[i] : i \in 1..Len(q)} :
                                          \A i \in 1..Len(q) : q[i] <= m

\* gold as the loss sees it: cumsa (lines 182-191), or gold / np.max(gold) in
\* beta_loss (line 308)
Gold(lossfn, cumsa, unit) ==
    [i \in 1..Len(cumsa) |->
        IF lossfn = "beta_loss"
        THEN IF MaxSeq(cumsa) = 0 THEN NaN ELSE Rat(cumsa[i], MaxSeq(cumsa))
        ELSE Rat(cumsa[i], unit)]

\* Whether the call multiplies the squared residuals by weights (lines 185-191)
Weighted(args) == args.lossfn = "mse" /\ args.weights # None

\* The terms of the loss, one per element of the sorted curve (lines 174-191):
\* the eccentricity the prediction is made at, the gold value it is compared
\* to, and the weight the squared residual is multiplied by, which is the
\* element of weights at the same index, weights being as it was passed
LossTerms(args, tie) ==
    LET c == Curve(args.verts, tie)
        g == Gold(args.lossfn, c.cumsa, args.unit)
    IN  [i \in 1..Len(c.eccen) |->
            [eccen  |-> c.eccen[i],
             gold   |-> g[i],
             weight |-> IF Weighted(args) THEN args.weights.v[i] ELSE 1]]

\* stepfn(x), lines 192-193, as the class of the loss
stepfn(args, tie, x) ==
    LET q     == argtx1(args.argtx, x)
        terms == LossTerms(args, tie)
        n     == Len(terms)
        pred  == [i \in 1..n |-> beta_form(terms[i].eccen, WholeOf(q[1]), WholeOf(q[2]))]
        wsum  == SumSeq([i \in 1..n |-> terms[i].weight])
        mean  == args.lossfn # "rss"
    IN  IF \E i \in 1..n : pred[i] = NaN \/ terms[i].gold = NaN THEN "nan"
        ELSE IF mean /\ wsum = 0 THEN "nan"
        ELSE IF \E i \in 1..n : terms[i].weight # 0 /\ terms[i].gold # pred[i]
        THEN "pos"
        ELSE "zero"

\* the points the optimiser can end at: pairs of whole numbers, or of square
\* roots of whole numbers under beta_argtx
SearchGrid(argtx) ==
    IF argtx = "None" THEN [1..2 -> {Whole(n) : n \in 0..MaxShape}]
    ELSE [1..2 -> {Surd(sg, k) : sg \in {-1, 1}, k \in 0..MaxShape}]

\* r = minimize(stepfn, params0, method=method), line 195.  scipy's optimiser
\* is not part of the repository: it ends either at a point where the loss is
\* zero (it converged to a minimum of a loss that is never negative) or at
\* its start point (it made no progress).
minimize(args, tie) ==
    LET x0 == argtx0(args.argtx, Wholes(args.params0))
    IN  {[x |-> g, fun |-> "zero"] :
            g \in {h \in SearchGrid(args.argtx) : stepfn(args, tie, h) = "zero"}}
        \cup {[x |-> x0, fun |-> stepfn(args, tie, x0)]}

\* beta.cdf(e / 7, a, b) in units of 1 / BetaUnit(a, b)
BetaUnit(a, b) == Pow(DefaultMaxEcc, a + b - 1)
CdfUnits(e, a, b) ==
    IF e <= 0 THEN 0
    ELSE IF e >= DefaultMaxEcc THEN BetaUnit(a, b)
    ELSE BetaSum(a + b - 1, a, e, DefaultMaxEcc)

\* Vertices at the eccentricities eccs (as passed, all different) whose
\* surface areas are generated from beta_form at the parameters p: each area
\* is the rise of the form since the next lower eccentricity
Synthetic(eccs, p) ==
    [i \in 1..Len(eccs) |->
        LET lower == {eccs[j] : j \in 1..Len(eccs)} \cap (0..(eccs[i] - 1))
            prev  == IF lower = {} THEN 0
                     ELSE CdfUnits(CHOOSE m \in lower : \A l \in lower : l <= m,
                                   p[1], p[2])
        IN  [x |-> eccs[i], y |-> 0, a |-> CdfUnits(eccs[i], p[1], p[2]) - prev]]

ShapeGrid == [1..2 -> 1..MaxShape]
EccGrid == {0, 3, DefaultMaxEcc}
EccSeqs ==
    UNION {{q \in [1..n -> EccGrid] : \A i, j \in 1..n : i # j => q[i] # q[j]} :
           n \in 1..MaxMinVerts}
WeightsFor(n) ==
    {None} \cup {[k |-> "array", v |-> w] : w \in [1..n -> 0..MaxWeight]}

\* a call on synthetic data, before minimize; weights are passed where the
\* loss uses them, with lossfn='mse'.  The eccentricities are all different,
\* so the order np.argsort leaves ties in plays no part.
MinInit ==
    /\ tieOrder = "as_passed"
    /\ known \in ShapeGrid
    /\ \E eccs \in EccSeqs, lossfn \in {"mse", "rss", "beta_loss"} :
         fitArgs \in [verts   : {Synthetic(eccs, known)},
                      unit    : {BetaUnit(known[1], known[2])},
                      params0 : {<<1, 1>>, <<MaxShape, 1>>},
                      lossfn  : {lossfn},
                      weights : IF lossfn = "mse" THEN WeightsFor(Len(eccs))
                                ELSE {None},
                      argtx   : {"None", "beta_argtx"}]
    /\ fitRes = None

MinIdle ==
    /\ fitArgs = None
    /\ known = None
    /\ fitRes = None

\* a mutant of fit_result: r.x is left in the optimiser's space
fit_result_untransformed(args, r) == r
\* lines 196-197: r.x = argtx[1](r.x); return r
fit_result(args, r) == [r EXCEPT !.x = argtx1(args.argtx, r.x)]

\* lines 171-197, with the loss that lines 181-191 built
FitReturn ==
    /\ fitRes = None
    /\ \E r \in minimize(fitArgs, tieOrder) :
         fitRes' = [terms |-> LossTerms(fitArgs, tieOrder),
                    r     |-> fit_result(fitArgs, r)]
    /\ UNCHANGED <<fitArgs, known, tieOrder, fitIn, fitOut, fitPrev,
                   filtVars, allVars, cacheVars, formVars>>

MinNext == FitReturn

(***************************************************************************)
(* Specifications.                                                         *)
(***************************************************************************)
InitFit   == FitInit /\ FiltIdle /\ AllIdle /\ CacheIdle /\ FormIdle /\ MinIdle
InitFilt  == FiltInit /\ FitIdle /\ AllIdle /\ CacheIdle /\ FormIdle /\ MinIdle
InitAll   == AllInit /\ FitIdle /\ FiltIdle /\ CacheIdle /\ FormIdle /\ MinIdle
InitCache == CacheInit /\ FitIdle /\ FiltIdle /\ AllIdle /\ FormIdle /\ MinIdle
InitForm  == FormIdle /\ FitIdle /\ FiltIdle /\ AllIdle /\ CacheIdle /\ MinIdle
InitRows  == RowsInit /\ FitIdle /\ FiltIdle /\ AllIdle /\ FormIdle /\ MinIdle
InitMin   ==
    /\ MinInit /\ fitIn = <<>> /\ fitOut = None /\ fitPrev = None
    /\ FiltIdle /\ AllIdle /\ CacheIdle /\ FormIdle

SpecFit   == InitFit /\ [][FitNext]_vars
SpecFilt  == InitFilt /\ [][FiltNext]_vars
SpecAll   == InitAll /\ [][AllNext]_vars
SpecCache == InitCache /\ [][CacheNext]_vars
SpecRace  == InitCache /\ [][RaceNext]_vars
SpecForm  == InitForm /\ [][FormNext]_vars
SpecRows  == InitRows /\ [][RowsNext]_vars
SpecMin   == InitMin /\ [][MinNext]_vars

(***************************************************************************)
(* The claims.                                                             *)
(***************************************************************************)
AreasOf(v) == [i \in 1..Len(v) |-> v[i].a]
NonDecreasing(s) == \A i \in 1..(Len(s) - 1) : s[i] <= s[i + 1]

\* the cells whose loop body has completed
DoneCells ==
    {c \in (1..Len(result)) \X (1..NumHemis) \X (1..Len(LabelsOf(faArgs))) :
        /\ c[1] <= Len(data)
        /\ Len(result[c[1]]) >= c[2]
        /\ Len(result[c[1]][c[2]]) >= c[3]}

\* the cell's result is None exactly when fewer than 5 vertices are selected,
\* and else the fit of the cell's vertices
CellAsClaimed(c) ==
    LET hdata == data[c[1]][c[2]]
        ii    == CellMask(faArgs, hdata, LabelsOf(faArgs)[c[3]])
        r     == result[c[1]][c[2]][c[3]]
    IN  /\ (r = None) <=> (CountTrue(ii) < MinVerts)
        /\ r # None =>
             /\ r.k = "fit"
             /\ r.curve = Curve(CellVerts(hdata, ii), tieOrder)

\* C1: a call of fitall_cmag_cumecc (any data, filter, labels, with or without
\* a weights key) does not raise, and each cell's result is None exactly when
\* fewer than 5 vertices satisfy filter AND label == lbl, and a fit otherwise.
C1_NoRaiseNoneIffFewerThan5 ==
    /\ faStatus \in {"idle", "running", "returned"}
    /\ \A c \in DoneCells : CellAsClaimed(c)

\* what holds of every call: a completed cell is None exactly when fewer than 5
\* vertices are selected, and a call given no weights key does not raise
CellsNoneIffFewerThan5 ==
    /\ \A c \in DoneCells : CellAsClaimed(c)
    /\ (faArgs # None /\ faArgs.weights = None) => faStatus # "ValueError"

\* C2: the curve fit_cmag_cumecc builds is non-decreasing in eccentricity and
\* in cumulative area, and its last cumulative value is the sum of the surface
\* areas of all the vertices passed.
C2_CurveNonDecreasingTotal ==
    fitOut # None =>
        /\ Len(fitOut.eccen) = Len(fitIn)
        /\ Len(fitOut.cumsa) = Len(fitIn)
        /\ NonDecreasing(fitOut.eccen)
        /\ NonDecreasing(fitOut.cumsa)
        /\ Len(fitIn) > 0 => fitOut.cumsa[Len(fitIn)] = SumSeq(AreasOf(fitIn))

\* C2's case: two vertices passed in descending eccentricity, both with area
C2_Witness ==
    /\ fitOut # None
    /\ Len(fitIn) = 2
    /\ Hypot(fitIn[1].x, fitIn[1].y) > Hypot(fitIn[2].x, fitIn[2].y)
    /\ fitIn[1].a > 0
    /\ fitIn[2].a > 0

\* vertices of equal eccentricity have equal surface areas
TiesAgree(v) ==
    \A i, j \in 1..Len(v) :
        Hypot(v[i].x, v[i].y) = Hypot(v[j].x, v[j].y) => v[i].a = v[j].a

\* C3 as stated: whatever the order the vertices are passed in, the curve is
\* the same, also when vertices of equal eccentricity differ in surface area.
C3_OrderIndependent ==
    fitPrev # None => fitOut = fitPrev.out

\* what holds: whatever the order the vertices are passed in, the curve is the
\* same provided vertices of equal eccentricity have equal surface areas
C3_OrderIndependentNoTies ==
    (fitPrev # None /\ TiesAgree(fitIn)) => fitOut = fitPrev.out

\* C4: filt_sect(d, a0, a1, e0, e1) is, vertex by vertex, the AND of
\* filt_wedge(d, a0, a1), filt_ring(d, e0, e1) and filt_base(d).
C4_SectIsWedgeAndRingAndBase ==
    fcall.k = "filt_sect" =>
        /\ Len(mask) = Len(subdat)
        /\ \A i \in 1..Len(subdat) :
             mask[i] = (/\ filt_wedge(subdat, fcall.a0, fcall.a1)[i]
                        /\ filt_ring(subdat, fcall.e0, fcall.e1)[i]
                        /\ filt_base(subdat, DefaultMaxEcc)[i])

\* C4's case: a vertex inside the wedge and outside the ring
C4_Witness ==
    /\ fcall.k = "filt_sect"
    /\ Len(subdat) >= 1
    /\ filt_wedge(subdat, fcall.a0, fcall.a1)[1]
    /\ ~filt_ring(subdat, fcall.e0, fcall.e1)[1]
    /\ ~mask[1]

Started(p) == run[p].pc \notin {"idle", "called"}
Ended(p) == run[p].pc \in {"returned", "raised"}
OverlayMissingAtCall(p) == ~run[p].v0 \/ ~run[p].d0

\* the call of run p ended in the RuntimeError that names the subject and the
\* hemisphere, returned nothing, wrote nothing and read the dataset once
FatalOverlayError(p) ==
    /\ run[p].pc = "raised"
    /\ run[p].err.k = "RuntimeError"
    /\ run[p].err.file \in {"ventral", "dorsal"}
    /\ ~run[p].v0 => run[p].err.file = "ventral"
    /\ run[p].err.sid = Sid
    /\ run[p].err.h = Hemi
    /\ run[p].ret = None
    /\ run[p].saves = 0
    /\ run[p].reads = 1

\* C5 as stated: whenever subdata(sid, h) is called while the ventral or the
\* dorsal overlay file is missing, the call ends in a fatal error that
\* identifies the subject and hemisphere, returns no data, writes no cache file
\* and is not retried.
C5_MissingOverlayIsFatal ==
    \A p \in Runs :
        (Started(p) /\ OverlayMissingAtCall(p)) =>
            /\ run[p].pc \in {"build", "raised"}
            /\ Ended(p) => FatalOverlayError(p)

\* C5 as amended: whenever subdata(sid, h) is called with overwrite=True or
\* with the cache file absent while the ventral or the dorsal overlay file is
\* missing, the call ends in that fatal error, returns no data, writes no cache
\* file and is not retried.
C5_MissingOverlayIsFatalOnBuild ==
    \A p \in Runs :
        (/\ Started(p)
         /\ OverlayMissingAtCall(p)
         /\ run[p].overwrite \/ ~run[p].isfile) =>
            /\ run[p].pc \in {"build", "raised"}
            /\ Ended(p) => FatalOverlayError(p)

\* C5's case: a call with overwrite=True, the dorsal file missing, raised and
\* left the cache file that was there as it was
C5_Witness ==
    \E p \in Runs :
        /\ FatalOverlayError(p)
        /\ run[p].err.file = "dorsal"
        /\ run[p].overwrite
        /\ run[p].file0.k = "file"
        /\ cachefile = run[p].file0

\* the write-once, read-many contract of the cache file
WriteOnceReadMany ==
    /\ nWrites <= 1
    /\ \A p \in Runs :
         /\ run[p].saves <= 1
         /\ run[p].saves = 1 => ~run[p].isfile
         /\ (Started(p) /\ (run[p].writes0 >= 1 \/ run[p].file0.k = "file")) =>
              /\ run[p].isfile
              /\ run[p].reads = 0
              /\ run[p].saves = 0
         /\ run[p].pc = "returned" =>
              /\ cachefile.k = "file"
              /\ run[p].ret = Dict(cachefile.rows)
         /\ run[p].pc = "raised" => run[p].err.k = "RuntimeError"

\* C6 as stated: over any sequence of sequential subdata calls the cache file
\* is written at most once, by the first call that finds it absent; every
\* later call finds it present, reads it without reading the dataset or
\* rewriting the file, and returns the arrays the writing call returned.
C6_WriteOnceReadMany == WriteOnceReadMany

\* C6 as amended: the same, over any sequence of sequential subdata calls that
\* all leave overwrite at False.
C6_WriteOnceReadManyNoOverwrite == ~anyOverwrite => WriteOnceReadMany

\* C6's case: one call wrote the file, the dataset changed, and a later call
\* returned the file's arrays without reading the dataset
C6_Witness ==
    \E p, q \in Runs :
        /\ ~anyOverwrite
        /\ run[p].pc = "returned"
        /\ run[p].saves = 1
        /\ run[q].pc = "returned"
        /\ run[q].isfile
        /\ run[q].reads = 0
        /\ run[q].ret = run[p].ret
        /\ run[q].ret # Dict(Rows(dataset))

\* C7: subdata's cache access is check-then-write with nothing in between: a
\* run that saw the file absent and passed the overlay checks writes the file
\* whatever has happened to it since, and a run that saw it present loads it
\* whether or not its writer has finished; so both runs can write, and a run
\* can load a file that is being written.
C7_CheckThenWriteUnmediated ==
    /\ nWrites = Cardinality({p \in Runs : run[p].saves = 1})
    /\ \A p \in Runs :
         /\ (Started(p) /\ ~run[p].isfile
                /\ run[p].pc \in {"saving", "load", "returned"}) => run[p].saves = 1
         /\ (Started(p) /\ run[p].isfile) =>
              /\ run[p].saves = 0
              /\ run[p].pc \in {"load", "returned", "raised"}
              /\ run[p].pc = "raised" => run[p].err.k = "LoadError"

\* C7's case: both runs saw the file absent, both wrote it, and one loaded it
\* while the other was writing
C7_Witness ==
    \E p, q \in Runs :
        /\ p # q
        /\ ~run[p].isfile /\ run[p].saves = 1
        /\ ~run[q].isfile /\ run[q].saves = 1
        /\ nWrites = 2
        /\ run[p].pc = "raised"
        /\ run[p].err.k = "LoadError"
        /\ run[q].pc = "saving"

\* the label the claim gives a vertex: its visual_area label if that is
\* nonzero, else its ventral label if that is nonzero, else its dorsal label
MergedLabel(v) ==
    IF v.visual_area # 0 THEN v.visual_area
    ELSE IF v.ventral # 0 THEN v.ventral
    ELSE v.dorsal

\* the eight values of a vertex, as float32
RowValues(v) ==
    <<F32(MergedLabel(v)), F32(v.prf_x), F32(v.prf_y), F32(v.prf_radius),
      F32(v.prf_polar_angle), F32(v.prf_eccentricity),
      F32(v.midgray_surface_area), F32(v.prf_variance_explained)>>

\* the file holds the eight rows of exactly the vertices marked in keep
HoldsRowsOf(keep) ==
    LET kept == MaskIx(keep, 1)
    IN  /\ Len(cachefile.rows) = 8
        /\ \A r \in 1..8 :
             /\ Len(cachefile.rows[r]) = Len(kept)
             /\ \A j \in 1..Len(kept) :
                  cachefile.rows[r][j] = RowValues(dataset[kept[j]])[r]

LabelNonzero == [i \in 1..Len(dataset) |-> MergedLabel(dataset[i]) # 0]
LabelPositive == [i \in 1..Len(dataset) |-> MergedLabel(dataset[i]) > 0]

\* C8 as stated: the cache file holds the eight rows (label, x, y, r, polar
\* angle, eccentricity, area, variance explained) of exactly the vertices whose
\* merged label is nonzero, a nonzero label never being overwritten by an
\* overlay.
C8_RowsOfNonzeroLabels ==
    cachefile.k = "file" => HoldsRowsOf(LabelNonzero)

\* C8 as amended: the cache file holds the eight rows, as float32, of exactly
\* the vertices whose merged label is positive.
C8_RowsOfPositiveLabels ==
    cachefile.k = "file" => HoldsRowsOf(LabelPositive)

\* C8's case: a vertex with a negative label is left out, a vertex labelled
\* only by the dorsal overlay is kept
C8_Witness ==
    /\ cachefile.k = "file"
    /\ Len(dataset) = 2
    /\ dataset[1].visual_area = -1
    /\ dataset[2].visual_area = 0
    /\ dataset[2].ventral = 0
    /\ dataset[2].dorsal = 1
    /\ cachefile.rows[1] = <<1>>

Forms == {"HH91", "HH91_integral", "beta_form"}

\* C9: each model form, at every non-negative eccentricity and every parameter
\* vector reached through its reparameterization (the square of any optimiser
\* vector, 0 included), yields a non-negative value (so not NaN).
C9_FormsNonNegative ==
    formCall.k \in Forms => NonNeg(formVal)

\* what holds: the forms are non-negative wherever both parameters are positive
FormsNonNegativeAtPositive ==
    (formCall.k \in Forms /\ formCall.p[1] # 0 /\ formCall.p[2] # 0) =>
        (formVal.k = "fin" /\ NonNeg(formVal))

\* C10: for A0 > 0, b > 0 and R > 0, HH91_integral(R, HH91_c1(A0, b, R), b)
\* is A0.
C10_TotalAreaReproduced ==
    formCall.k = "total_area" => formVal = Num(formCall.A0)

\* C10's case: A0 = 2 with b = 1 and R = 2
C10_Witness ==
    /\ formCall = [k |-> "total_area", A0 |-> 2, b |-> 1, R |-> 2]
    /\ formVal = Num(2)


\* the relative tolerance of a numerical comparison, as a rational
Tolerance == <<1, 100>>

\* u is v to within the relative tolerance: two finite values with the same
\* irrational factor whose rational coefficients differ by no more than
\* Tolerance times v's
Close(u, v) ==
    /\ u.k = "fin"
    /\ v.k = "fin"
    /\ u.pi = v.pi
    /\ u.at = v.at
    /\ u.rt = v.rt
    /\ Abs(u.c[1] * v.c[2] - v.c[1] * u.c[2]) * Tolerance[2]
           <= Tolerance[1] * Abs(v.c[1]) * u.c[2]

\* C11: for a > 0, b > 0 and r >= 0 the closed form HH91_integral(r, a, b) is,
\* to within a small tolerance, the integral of HH91 over the disk of radius r
\* as the math notes derive it.
C11_ClosedFormMatchesDiskIntegral ==
    (formCall.k = "HH91_integral" /\ formCall.p[1] # 0 /\ formCall.p[2] # 0) =>
        LET q == ArgTxInverse(formCall.p)
        IN  Close(formVal, M_HH(formCall.x, Num(q[1]), q[2]))

\* what holds: the closed form is half the integral over the disk (it is the
\* integral over a half disk, one hemifield)
ClosedFormIsHalfDiskIntegral ==
    (formCall.k = "HH91_integral" /\ formCall.p[1] # 0 /\ formCall.p[2] # 0) =>
        LET q == ArgTxInverse(formCall.p)
        IN  Mul(Num(2), formVal) = M_HH(formCall.x, Num(q[1]), q[2])


\* Numerical integration of the areal model, for comparison with the closed
\* form.  rho * HH91(rho, a, b) rises up to rho = b and falls after it, so on
\* any interval its least value is at an end point, and a sum of least values
\* times widths is a lower bound of the integral.  The sum is over NumSlices equal
\* intervals of [0, r], for a = 1, in units of 1 / Scale, each term rounded
\* down: width * rho * HH91(rho, 1, b) at rho = i r / NumSlices is
\* i r^2 / (NumSlices b + i r)^2.
NumSlices == 4
Scale == 10000
Least(m, n) == IF m < n THEN m ELSE n
SliceArea(i, r, b) ==
    (Scale * i * r * r) \div ((NumSlices * b + i * r) * (NumSlices * b + i * r))
RECURSIVE LowerSum(_, _, _)
LowerSum(i, r, b) ==
    IF i >= NumSlices THEN 0
    ELSE Least(SliceArea(i, r, b), SliceArea(i + 1, r, b)) + LowerSum(i + 1, r, b)

\* D = log(q) - r is certainly below n / d: log(q) <= (q^2 - 1) / (2 q) for
\* q >= 1
TermBelow(t, n, d) ==
    /\ t.q[1] >= t.q[2]
    /\ (t.q[1] * t.q[1] - t.q[2] * t.q[2]) * t.r[2] * d
           < (n * t.r[2] + d * t.r[1]) * 2 * t.q[1] * t.q[2]

\* what holds, whatever the notes say: for 0 < r <= b the closed form
\* a^2 pi D is below the lower bound 2 pi a^2 LowerSum / Scale of the integral
\* of HH91 over the disk by more than the tolerance
ClosedFormBelowNumericalIntegral ==
    (/\ formCall.k = "HH91_integral"
     /\ formCall.p[1] # 0
     /\ formCall.p[2] # 0
     /\ formCall.x > 0
     /\ formCall.x <= ArgTxInverse(formCall.p)[2]) =>
        LET q == ArgTxInverse(formCall.p)
        IN  /\ formVal.k = "fin"
            /\ formVal.c = <<q[1] * q[1], 1>>
            /\ formVal.pi = 1
            /\ ~formVal.rt
            /\ Cardinality(formVal.at) = 1
            /\ \A t \in formVal.at :
                 /\ t.e = 1
                 /\ TermBelow(t, 2 * LowerSum(0, formCall.x, q[2])
                                   * (Tolerance[2] - Tolerance[1]),
                              Scale * Tolerance[2])


\* the vertices of d whose eccentricity lies in [lo, hi] and below cut
EccWithin(d, lo, hi, cut) ==
    [i \in 1..Len(d) |-> /\ d[i].eccentricity >= lo
                         /\ d[i].eccentricity <= hi
                         /\ d[i].eccentricity < cut]
\* the vertices of d whose polar angle lies in [lo, hi] and whose eccentricity
\* is below cut
AngWithin(d, lo, hi, cut) ==
    [i \in 1..Len(d) |-> /\ d[i].polar_angle >= lo
                         /\ d[i].polar_angle <= hi
                         /\ d[i].eccentricity < cut]
\* above every eccentricity of the model: no cutoff
NoCutoff == DefaultMaxEcc + EccSpread + 1

\* C13 as stated: for lo <= hi, filt_ring(d, lo, hi) selects exactly the
\* vertices whose eccentricity lies in [lo, hi], filt_wedge(d, lo, hi) exactly
\* those whose polar angle lies in [lo, hi], and filt_base(d, c) exactly those
\* whose eccentricity is strictly below c.
C13_FiltersSelectExactlyTheirRange ==
    /\ (fcall.k = "filt_ring" /\ fcall.e0 <= fcall.e1) =>
           mask = EccWithin(subdat, fcall.e0, fcall.e1, NoCutoff)
    /\ (fcall.k = "filt_wedge" /\ fcall.a0 <= fcall.a1) =>
           mask = AngWithin(subdat, fcall.a0, fcall.a1, NoCutoff)
    /\ fcall.k = "filt_base" =>
           mask = [i \in 1..Len(subdat) |-> subdat[i].eccentricity < fcall.maxecc]

\* C13 as amended: filt_ring and filt_wedge select the vertices of their range
\* that are also below filt_base's default cutoff of 7 degrees of eccentricity.
C13_FiltersSelectRangeBelowCutoff ==
    /\ (fcall.k = "filt_ring" /\ fcall.e0 <= fcall.e1) =>
           mask = EccWithin(subdat, fcall.e0, fcall.e1, DefaultMaxEcc)
    /\ (fcall.k = "filt_wedge" /\ fcall.a0 <= fcall.a1) =>
           mask = AngWithin(subdat, fcall.a0, fcall.a1, DefaultMaxEcc)
    /\ fcall.k = "filt_base" =>
           mask = [i \in 1..Len(subdat) |-> subdat[i].eccentricity < fcall.maxecc]

\* C13's case: a vertex at 7 degrees, inside the ring [7, 8], is not selected
C13_Witness ==
    /\ fcall.k = "filt_ring"
    /\ fcall.e0 = DefaultMaxEcc
    /\ fcall.e1 = DefaultMaxEcc + 1
    /\ Len(subdat) = 1
    /\ subdat[1].eccentricity = DefaultMaxEcc
    /\ mask = <<FALSE>>


\* what fitall_cmag_cumecc, given the same arguments, records for the cell c
\* when no other cell has been processed before it
CellAlone(c) ==
    LET hdata == data[c[1]][c[2]]
        ii    == CellMask(faArgs, hdata, LabelsOf(faArgs)[c[3]])
        w     == IF Truth(faArgs.weights) = "True"
                 THEN [k |-> "array", v |-> CellColumn(hdata, faArgs.weights.name, ii)]
                 ELSE None
    IN  IF TooFew(CountTrue(ii)) THEN None
        ELSE fit_cmag_cumecc(CellVerts(hdata, ii), w, tieOrder)

\* C14: no state set while processing one cell affects a later cell: each
\* cell's outcome is the outcome of the same call on that cell alone (a result,
\* never an exception), and the weights key the caller passed is still the one
\* hdata[weights] is looked up with at every cell.
C14_CellsIndependent ==
    /\ \A c \in DoneCells : result[c[1]][c[2]][c[3]] = CellAlone(c)
    /\ faStatus # "ValueError"
    /\ faStatus = "running" => weights = faArgs.weights

\* what holds: every completed cell's result is that of the cell alone (with a
\* weights key the call raises before a second fitted cell completes), and
\* without a weights key the call does not raise
CellsIndependentUntilFirstFit ==
    /\ \A c \in DoneCells : result[c[1]][c[2]][c[3]] = CellAlone(c)
    /\ (faArgs # None /\ faArgs.weights = None) =>
           (faStatus # "ValueError" /\ weights = None)


\* The areas of fitArgs match the form at the known parameters as the loss
\* compares them: beta_loss divides the curve by its maximum, so the form has
\* to reach 1 at the largest eccentricity
PerfectMatch ==
    \/ fitArgs.lossfn \in {"mse", "rss"}
    \/ \E i \in 1..Len(fitArgs.verts) : fitArgs.verts[i].x >= DefaultMaxEcc

\* no other parameter vector gives the form the same values at the vertices'
\* eccentricities
Identifiable ==
    \A q \in ShapeGrid \ {known} :
        \E i \in 1..Len(fitArgs.verts) :
            beta_form(fitArgs.verts[i].x, q[1], q[2])
                # beta_form(fitArgs.verts[i].x, known[1], known[2])

\* weights, where the loss uses them, are all positive
PositiveWeights ==
    Weighted(fitArgs) => \A i \in 1..Len(fitArgs.weights.v) : fitArgs.weights.v[i] > 0

EccenAsPassed == [i \in 1..Len(fitArgs.verts) |-> Hypot(fitArgs.verts[i].x, fitArgs.verts[i].y)]
SortOrder == ArgSort(EccenAsPassed, tieOrder)

\* C15: with lossfn='mse' and a weights array, the weight that multiplies each
\* squared residual is the weight of the vertex whose eccentricity and
\* cumulative area produce that residual: the weights follow the ascending
\* eccentricity reordering, for every input order.
C15_WeightsFollowTheSort ==
    (fitRes # None /\ Weighted(fitArgs)) =>
        \A i \in 1..Len(fitRes.terms) :
            /\ fitRes.terms[i].eccen = EccenAsPassed[SortOrder[i]]
            /\ fitRes.terms[i].weight = fitArgs.weights.v[SortOrder[i]]

\* what holds: the residual at sorted position i is multiplied by the weight
\* at position i of the array as passed, which is its vertex's weight when the
\* vertices are passed in ascending eccentricity
WeightsStayAsPassed ==
    (fitRes # None /\ Weighted(fitArgs)) =>
        /\ \A i \in 1..Len(fitRes.terms) :
             /\ fitRes.terms[i].eccen = EccenAsPassed[SortOrder[i]]
             /\ fitRes.terms[i].weight = fitArgs.weights.v[i]
        /\ (\A i \in 1..Len(SortOrder) : SortOrder[i] = i) =>
               \A i \in 1..Len(fitRes.terms) :
                   fitRes.terms[i].weight = fitArgs.weights.v[SortOrder[i]]

====
